---- MODULE Spec2Model ----
(***************************************************************************)
(* Model of src/utils/screengrabber.cpp (ScreenGrabber): the capture       *)
(* dispatcher grabEntireDesktop, the portal backend freeDesktopPortal, the *)
(* grim backend generalGrimScreenshot, the desktop geometries and          *)
(* adjustDevicePixelRatio.  One capture call is followed from its entry to *)
(* its return; the session bus, the portal, the grim and hyprctl processes *)
(* and the files they write are the environment.                           *)
(***************************************************************************)
EXTENDS Integers, Sequences, FiniteSets, TLC

VARIABLES
    pc,             \* position of the capture call
    wayland,        \* m_info.waylandDetected()
    wm,             \* m_info.windowManager()
    useGrimAdapter, \* ConfigHandler().useGrimAdapter() as stored now
    disabledGrimWarning, \* ConfigHandler().disabledGrimWarning() as stored now
    grimFlagRead,   \* value of useGrimAdapter read by the dispatcher (line 163)
    ok,             \* bool& ok
    res,            \* QPixmap res
    log,            \* messages handed to AbstractLogger, in order
    ops,            \* bus, file and process operations performed, in order
    screens,        \* QGuiApplication::screens(): geometry and devicePixelRatio
    appDpr,         \* qApp->devicePixelRatio(), in quarters
    registered,     \* is org.freedesktop.portal.Desktop on the session bus
    baseService,    \* QDBusConnection::sessionBus().baseService()
    token,          \* QString token of the call in progress
    handleToken,    \* handle_token option the portal got with the Screenshot call
    request,        \* object path of the Request interface, or NoPath
    conn,           \* object path whose Response signal is connected, or NoPath
    closed,         \* request->Close() has been called
    released,       \* request->deleteLater() has been called
    portal,         \* portal side of the request: "none", "accepted", "rejected", "responded"
    inflight,       \* Response signals emitted and not yet delivered
    handled,        \* number of times gotSignal has run
    emitted,        \* every Response the portal has emitted, in order
    portalFile,     \* file named by the uri of a status-0 Response
    grimFile,       \* $XDG_RUNTIME_DIR/flameshot.ppm
    grimProc,       \* the grim process: "none", "started", or how it ended
    portalCalls,    \* calls of freeDesktopPortal made by the dispatcher
    grimCalls,      \* calls of generalGrimScreenshot made by the dispatcher
    geo             \* the latest geometry computation: hyprctl outputs, geometries, pixmap

vars == <<pc, wayland, wm, useGrimAdapter, disabledGrimWarning, grimFlagRead,
          ok, res, log, ops, screens, appDpr, registered, baseService,
          token, handleToken, request, conn, closed, released, portal, inflight, handled,
          emitted, portalFile, grimFile, grimProc, portalCalls, grimCalls, geo>>

----------------------------------------------------------------------------
(* Arithmetic helpers.  Scales are rationals held in quarters: 4 is 1.0,   *)
(* 5 is 1.25, 8 is 2.0.  A rational is a pair <<n, d>> with d > 0.         *)

Min(a, b) == IF a <= b THEN a ELSE b
Max(a, b) == IF a >= b THEN a ELSE b

\* floor and ceiling of n/d for d > 0 (TLA+ \div rounds toward minus infinity)
Floor(n, d) == n \div d
Ceil(n, d) == -((-n) \div d)

\* std::llround: round half away from zero
llround(n, d) ==
    IF n >= 0 THEN (2 * n + d) \div (2 * d)
              ELSE -((2 * (-n) + d) \div (2 * d))

RLess(a, b) == a[1] * b[2] < b[1] * a[2]
RMin(a, b) == IF RLess(b, a) THEN b ELSE a
RMax(a, b) == IF RLess(a, b) THEN b ELSE a
RAdd(a, b) == <<a[1] * b[2] + b[1] * a[2], a[2] * b[2]>>

----------------------------------------------------------------------------
(* QRect and QRectF.  A QRect is [x, y, w, h] with w, h >= 0; a QRectF has *)
(* rational fields.                                                        *)

Rect(x, y, w, h) == [x |-> x, y |-> y, w |-> w, h |-> h]
NullRect == Rect(0, 0, 0, 0)
RectIsNull(r) == r.w = 0 /\ r.h = 0

\* QRect::united
united(a, b) ==
    IF RectIsNull(a) THEN b
    ELSE IF RectIsNull(b) THEN a
    ELSE LET l == Min(a.x, b.x)
             t == Min(a.y, b.y)
             r == Max(a.x + a.w, b.x + b.w)
             bt == Max(a.y + a.h, b.y + b.h)
         IN  Rect(l, t, r - l, bt - t)

NullRectF == Rect(<<0, 1>>, <<0, 1>>, <<0, 1>>, <<0, 1>>)
RectFIsNull(r) == r.w[1] = 0 /\ r.h[1] = 0

\* QRectF::united
unitedF(a, b) ==
    IF RectFIsNull(a) THEN b
    ELSE IF RectFIsNull(b) THEN a
    ELSE LET l == RMin(a.x, b.x)
             t == RMin(a.y, b.y)
             r == RMax(RAdd(a.x, a.w), RAdd(b.x, b.w))
             bt == RMax(RAdd(a.y, a.h), RAdd(b.y, b.h))
         IN  Rect(l, t, RAdd(r, <<-l[1], l[2]>>), RAdd(bt, <<-t[1], t[2]>>))

\* QRectF::toAlignedRect
toAlignedRect(r) ==
    LET rt == RAdd(r.x, r.w)
        bt == RAdd(r.y, r.h)
        xmin == Floor(r.x[1], r.x[2])
        ymin == Floor(r.y[1], r.y[2])
        xmax == Ceil(rt[1], rt[2])
        ymax == Ceil(bt[1], bt[2])
    IN  Rect(xmin, ymin, xmax - xmin, ymax - ymin)

----------------------------------------------------------------------------
(* Inputs of one capture call.                                             *)

\* DesktopInfo::WM values named by the switch of grabEntireDesktop, and the
\* value that reaches its default label
WindowManagers ==
    {"GNOME", "KDE", "COSMIC", "QTILE", "WLROOTS", "HYPRLAND", "OTHER", "NONE"}

Screen(x, y, w, h, dpr) == [x |-> x, y |-> y, w |-> w, h |-> h, dpr |-> dpr]

\* screen layouts: one output at scale 1, one output at scale 2, and two
\* outputs at scales 1 and 1.25
Layouts ==
    { <<Screen(0, 0, 1920, 1080, 4)>>,
      <<Screen(0, 0, 3840, 2160, 8)>>,
      <<Screen(0, 0, 1920, 1080, 4), Screen(1920, 0, 2560, 1440, 5)>> }

\* qApp->devicePixelRatio(): the highest devicePixelRatio of the screens
RECURSIVE highestDpr(_)
highestDpr(scr) ==
    IF scr = <<>> THEN 4
    ELSE Max(scr[1].dpr, highestDpr(Tail(scr)))

\* sizes of the image a backend hands back
ImageSizes == { <<1920, 1080>>, <<3840, 2160>>, <<4480, 1440>> }

File(kind, w, h) == [kind |-> kind, w |-> w, h |-> h]
NoFile == File("absent", 0, 0)
CorruptFile == File("corrupt", 0, 0)
ImageFiles == { File("image", sz[1], sz[2]) : sz \in ImageSizes }

Monitor(x, y, width, height, scale) ==
    [isObject |-> TRUE, x |-> x, y |-> y, width |-> width, height |-> height,
     scale |-> scale]
NotAnObject ==
    [isObject |-> FALSE, x |-> 0, y |-> 0, width |-> 0, height |-> 0, scale |-> 0]

\* what a run of "hyprctl monitors -j" can give: no exit within the second,
\* output that is not a JSON array, or an array of values
Hyprctl(finished, isArray, array) ==
    [finished |-> finished, isArray |-> isArray, array |-> array]
HyprctlOutcomes ==
    { Hyprctl(FALSE, FALSE, <<>>),
      Hyprctl(TRUE, FALSE, <<>>),
      Hyprctl(TRUE, TRUE, <<NotAnObject, Monitor(0, 0, 1920, 1080, 0)>>),
      Hyprctl(TRUE, TRUE, <<Monitor(0, 0, 3840, 2160, 8)>>),
      Hyprctl(TRUE, TRUE, <<Monitor(0, 0, 1920, 1080, 4),
                            Monitor(1920, 0, 2560, 1440, 5),
                            Monitor(0, 0, 0, 1080, 4)>>) }

----------------------------------------------------------------------------
(* Desktop geometries.                                                     *)

RECURSIVE hyprlandUnion_noWidthTest(_, _, _)
\* hyprlandUnion without the width test of line 348
hyprlandUnion_noWidthTest(array, i, acc) ==
    IF i > Len(array) THEN acc
    ELSE LET m == array[i]
         IN  IF ~m.isObject \/ m.height <= 0 \/ m.scale <= 0
             THEN hyprlandUnion_noWidthTest(array, i + 1, acc)
             ELSE LET physicalRect == Rect(m.x, m.y, m.width, m.height)
                      logicalRect == Rect(llround(4 * m.x, m.scale),
                                          llround(4 * m.y, m.scale),
                                          llround(4 * m.width, m.scale),
                                          llround(4 * m.height, m.scale))
                      \* the two assignments of lines 360-361, then the
                      \* next turn of the loop on their values
                      unions == {[got |-> TRUE,
                                  physical |-> united(acc.physical, physicalRect),
                                  logical |-> united(acc.logical, logicalRect)]}
                  IN  CHOOSE r \in { hyprlandUnion_noWidthTest(array, i + 1, next) :
                                        next \in unions } : TRUE

RECURSIVE hyprlandUnion(_, _, _)
\* the loop of hyprlandDesktopGeometries over doc.array(), from entry i on
hyprlandUnion(array, i, acc) ==
    IF i > Len(array) THEN acc
    ELSE LET m == array[i]
         IN  IF ~m.isObject \/ m.width <= 0 \/ m.height <= 0 \/ m.scale <= 0
             THEN hyprlandUnion(array, i + 1, acc)
             ELSE LET physicalRect == Rect(m.x, m.y, m.width, m.height)
                      logicalRect == Rect(llround(4 * m.x, m.scale),
                                          llround(4 * m.y, m.scale),
                                          llround(4 * m.width, m.scale),
                                          llround(4 * m.height, m.scale))
                      \* the two assignments of lines 360-361, then the
                      \* next turn of the loop on their values
                      unions == {[got |-> TRUE,
                                  physical |-> united(acc.physical, physicalRect),
                                  logical |-> united(acc.logical, logicalRect)]}
                  IN  CHOOSE r \in { hyprlandUnion(array, i + 1, next) :
                                        next \in unions } : TRUE

NoGeometries == [got |-> FALSE, physical |-> NullRect, logical |-> NullRect]

\* does a call of hyprlandDesktopGeometries start hyprctl
hyprctlStarted == wayland /\ wm = "HYPRLAND"

\* hyprlandDesktopGeometries returning true for every parsed array, with or
\* without a valid monitor in it
hyprlandDesktopGeometries_alwaysGot(out) ==
    IF ~hyprctlStarted THEN NoGeometries
    ELSE IF ~out.finished THEN NoGeometries
    ELSE IF ~out.isArray THEN NoGeometries
    ELSE [hyprlandUnion(out.array, 1, NoGeometries) EXCEPT !.got = TRUE]

\* ScreenGrabber::hyprlandDesktopGeometries, given what hyprctl does
hyprlandDesktopGeometries(out) ==
    IF ~hyprctlStarted THEN NoGeometries
    ELSE IF ~out.finished THEN NoGeometries
    ELSE IF ~out.isArray THEN NoGeometries
    ELSE hyprlandUnion(out.array, 1, NoGeometries)

\* the loop of desktopGeometry over QGuiApplication::screens(); each turn
\* assigns the union to geometry (line 274) and the next turn starts from
\* that value
screensPhysical(scr) ==
    LET RECURSIVE go(_, _)
        go(i, geometry) ==
            IF i > Len(scr) THEN geometry
            ELSE LET unions == {united(geometry, Rect(scr[i].x, scr[i].y,
                                                     scr[i].w, scr[i].h))}
                 IN  CHOOSE r \in { go(i + 1, next) : next \in unions } : TRUE
    IN  go(1, NullRect)

\* the loop of logicalDesktopGeometry over QGuiApplication::screens(), each
\* turn starting from the value line 297 assigned, and toAlignedRect on the
\* value the loop ends with
screensLogical(scr) ==
    LET RECURSIVE go(_, _)
        go(i, geometry) ==
            IF i > Len(scr) THEN geometry
            ELSE LET unions == {unitedF(geometry,
                                        Rect(<<4 * scr[i].x, scr[i].dpr>>,
                                             <<4 * scr[i].y, scr[i].dpr>>,
                                             <<4 * scr[i].w, scr[i].dpr>>,
                                             <<4 * scr[i].h, scr[i].dpr>>))}
                 IN  CHOOSE r \in { go(i + 1, next) : next \in unions } : TRUE
    IN  CHOOSE r \in { toAlignedRect(geometry) :
                          geometry \in {go(1, NullRectF)} } : TRUE

\* ScreenGrabber::desktopGeometry
desktopGeometry(out) ==
    LET hypr == hyprlandDesktopGeometries(out)
    IN  IF hypr.got THEN hypr.physical ELSE screensPhysical(screens)

\* ScreenGrabber::logicalDesktopGeometry
logicalDesktopGeometry(out) ==
    LET hypr == hyprlandDesktopGeometries(out)
    IN  IF hypr.got THEN hypr.logical ELSE screensLogical(screens)

----------------------------------------------------------------------------
(* QPixmap.  devicePixelRatio is a rational; <<n, 0>> stands for the       *)
(* result of a division by a zero height.                                  *)

Pixmap(isNull, w, h, dpr) == [isNull |-> isNull, w |-> w, h |-> h, dpr |-> dpr]
NullPixmap == Pixmap(TRUE, 0, 0, <<1, 1>>)

\* QPixmap(path) and QPixmap::load(path): a null pixmap unless the file holds
\* an image
loadPixmap(file) ==
    IF file.kind = "image" THEN Pixmap(FALSE, file.w, file.h, <<1, 1>>)
    ELSE NullPixmap

\* QPixmap::setDevicePixelRatio: no effect on a null pixmap
setDevicePixelRatio(pixmap, dpr) ==
    IF pixmap.isNull THEN pixmap ELSE [pixmap EXCEPT !.dpr = dpr]

\* adjustDevicePixelRatio taking the quotient of the widths
adjustDevicePixelRatio_byWidth(pixmap, out1, out2) ==
    LET physicalGeo == desktopGeometry(out1)
        logicalGeo == logicalDesktopGeometry(out2)
    IN  IF pixmap.w = physicalGeo.w /\ pixmap.h = physicalGeo.h
        THEN setDevicePixelRatio(pixmap, <<appDpr, 4>>)
        ELSE IF ~(pixmap.w = logicalGeo.w /\ pixmap.h = logicalGeo.h)
        THEN setDevicePixelRatio(pixmap, <<pixmap.w, logicalGeo.w>>)
        ELSE pixmap

\* adjustDevicePixelRatio with the quotient upside down
adjustDevicePixelRatio_inverted(pixmap, out1, out2) ==
    LET physicalGeo == desktopGeometry(out1)
        logicalGeo == logicalDesktopGeometry(out2)
    IN  IF pixmap.w = physicalGeo.w /\ pixmap.h = physicalGeo.h
        THEN setDevicePixelRatio(pixmap, <<appDpr, 4>>)
        ELSE IF ~(pixmap.w = logicalGeo.w /\ pixmap.h = logicalGeo.h)
        THEN setDevicePixelRatio(pixmap, <<logicalGeo.h, pixmap.h>>)
        ELSE pixmap

\* ScreenGrabber::adjustDevicePixelRatio; out1 and out2 are what the hyprctl
\* runs of desktopGeometry() and logicalDesktopGeometry() give.  The quotient
\* is kept exact (the code rounds it to a float).
adjustDevicePixelRatio(pixmap, out1, out2) ==
    LET physicalGeo == desktopGeometry(out1)
        logicalGeo == logicalDesktopGeometry(out2)
    IN  IF pixmap.w = physicalGeo.w /\ pixmap.h = physicalGeo.h
        THEN setDevicePixelRatio(pixmap, <<appDpr, 4>>)
        ELSE IF ~(pixmap.w = logicalGeo.w /\ pixmap.h = logicalGeo.h)
        THEN setDevicePixelRatio(pixmap, <<pixmap.h, logicalGeo.h>>)
        ELSE pixmap

\* hyprctl was not run, when hyprlandDesktopGeometries returns at line 307
NotRun == Hyprctl(FALSE, FALSE, <<>>)

\* what one adjustDevicePixelRatio call saw and did: the hyprctl outputs of
\* its two geometry calls, the two geometries, the pixmap before and after
adjustRecord(pixmap, out1, out2) ==
    [op |-> "adjust", out1 |-> out1, out2 |-> out2,
     physical |-> desktopGeometry(out1),
     logical |-> logicalDesktopGeometry(out2),
     before |-> pixmap,
     after |-> adjustDevicePixelRatio(pixmap, out1, out2)]

NoGeo ==
    [op |-> "none", out1 |-> NotRun, out2 |-> NotRun, physical |-> NullRect,
     logical |-> NullRect, before |-> NullPixmap, after |-> NullPixmap]

\* the hyprctl runs one adjustDevicePixelRatio call makes, as operations
adjustOps == IF hyprctlStarted THEN <<"hyprctl", "hyprctl">> ELSE <<>>

----------------------------------------------------------------------------
(* Strings are sequences of characters.                                    *)

\* QString::remove(QChar)
remove(str, ch) == SelectSeq(str, LAMBDA c : c # ch)

\* QString::replace(QChar, QChar)
replace(str, before, after) ==
    [i \in DOMAIN str |-> IF str[i] = before THEN after ELSE str[i]]

\* unique connection names the bus hands out
BaseServices == { <<":", "1", ".", "7">>, <<":", "1", ".", "4", "2">> }

\* QUuid::createUuid().toString()
Uuids == { <<"{", "a", "1", "-", "b", "2", "}">>,
           <<"{", "c", "3", "-", "d", "4", "}">> }

NoPath == <<>>

\* the token of freeDesktopPortal (lines 85-86)
makeToken(uuid) == remove(remove(remove(uuid, "-"), "{"), "}")

\* the object path freeDesktopPortal gives the Request interface (lines 91-94)
requestPath(base, tok) ==
    <<"/org/freedesktop/portal/desktop/request/">>
      \o replace(remove(base, ":"), ".", "_") \o <<"/">> \o tok

\* the object path on which the portal emits Response for a Screenshot call
\* of this sender with this handle_token: the sender's unique name without
\* its leading ':' and with every '.' turned into '_'
portalRequestPath(sender, handle) ==
    <<"/org/freedesktop/portal/desktop/request/">>
      \o replace(Tail(sender), ".", "_") \o <<"/">> \o handle

Response(path, status) == [path |-> path, status |-> status]

\* status values of a Response: 0 success, 1 cancelled by the user, 2 other
Statuses == {0, 1, 2}

----------------------------------------------------------------------------
Init ==
    /\ pc = "idle"
    /\ wayland \in BOOLEAN
    /\ wm \in WindowManagers
    /\ useGrimAdapter \in BOOLEAN
    /\ disabledGrimWarning \in BOOLEAN
    /\ grimFlagRead = "unread"
    /\ ok = FALSE
    /\ res = NullPixmap
    /\ log = <<>>
    /\ ops = <<>>
    /\ screens \in Layouts
    /\ appDpr = highestDpr(screens)
    /\ registered \in BOOLEAN
    /\ baseService \in BaseServices
    /\ token = <<>>
    /\ handleToken = <<>>
    /\ request = NoPath
    /\ conn = NoPath
    /\ closed = FALSE
    /\ released = FALSE
    /\ portal = "none"
    /\ inflight = {}
    /\ handled = 0
    /\ emitted = <<>>
    /\ portalFile = NoFile
    /\ grimFile \in {NoFile, File("image", 1920, 1080)}
    /\ grimProc = "none"
    /\ portalCalls = 0
    /\ grimCalls = 0
    /\ geo = NoGeo

envVars == <<wayland, wm, screens, appDpr, registered, baseService>>
cfgVars == <<useGrimAdapter, disabledGrimWarning>>
busVars == <<token, handleToken, request, conn, closed, released, portal,
             inflight, handled, emitted, portalFile>>
grimVars == <<grimFile, grimProc>>
callVars == <<grimFlagRead, portalCalls, grimCalls>>

----------------------------------------------------------------------------
(* ScreenGrabber::grabEntireDesktop                                        *)

\* lines 136-150 and 201: ok = true, then the wayland test
grabEntireDesktop ==
    /\ pc = "idle"
    /\ ok' = TRUE
    /\ res' = NullPixmap
    /\ pc' = IF wayland THEN "switch" ELSE "direct"
    /\ UNCHANGED <<envVars, geo, cfgVars, busVars, grimVars, callVars, log, ops>>

\* switchPortal as it would be if GNOME, KDE and COSMIC honoured the
\* useGrimAdapter setting like the other window managers
switchPortal_honoursGrimFlag ==
    /\ pc = "switch"
    /\ wm \in {"GNOME", "KDE", "COSMIC"}
    /\ IF ~useGrimAdapter
       THEN /\ portalCalls' = portalCalls + 1
            /\ pc' = "fdp_entry"
            /\ UNCHANGED grimCalls
       ELSE /\ grimCalls' = grimCalls + 1
            /\ pc' = "grim_entry"
            /\ UNCHANGED portalCalls
    /\ UNCHANGED <<envVars, geo, cfgVars, busVars, grimVars, grimFlagRead,
                   ok, res, log, ops>>

\* lines 154-158: GNOME, KDE, COSMIC
switchPortal ==
    /\ pc = "switch"
    /\ wm \in {"GNOME", "KDE", "COSMIC"}
    /\ portalCalls' = portalCalls + 1
    /\ pc' = "fdp_entry"
    /\ UNCHANGED <<envVars, geo, cfgVars, busVars, grimVars, grimFlagRead,
                   grimCalls, ok, res, log, ops>>

\* switchConfigured with the test of useGrimAdapter inverted
switchConfigured_inverted ==
    /\ pc = "switch"
    /\ wm \in {"QTILE", "WLROOTS", "HYPRLAND", "OTHER"}
    /\ grimFlagRead' = IF useGrimAdapter THEN "set" ELSE "unset"
    /\ IF useGrimAdapter
       THEN /\ log' = IF ~disabledGrimWarning
                      THEN Append(log, "warning: dbus protocol")
                      ELSE log
            /\ portalCalls' = portalCalls + 1
            /\ pc' = "fdp_entry"
            /\ UNCHANGED grimCalls
       ELSE /\ log' = IF ~disabledGrimWarning
                      THEN Append(log, "warning: grim is wlroots based")
                      ELSE log
            /\ grimCalls' = grimCalls + 1
            /\ pc' = "grim_entry"
            /\ UNCHANGED portalCalls
    /\ UNCHANGED <<envVars, geo, cfgVars, busVars, grimVars, ok, res, ops>>

\* lines 159-184: QTILE, WLROOTS, HYPRLAND, OTHER
switchConfigured ==
    /\ pc = "switch"
    /\ wm \in {"QTILE", "WLROOTS", "HYPRLAND", "OTHER"}
    /\ grimFlagRead' = IF useGrimAdapter THEN "set" ELSE "unset"
    /\ IF ~useGrimAdapter
       THEN /\ log' = IF ~disabledGrimWarning
                      THEN Append(log, "warning: dbus protocol")
                      ELSE log
            /\ portalCalls' = portalCalls + 1
            /\ pc' = "fdp_entry"
            /\ UNCHANGED grimCalls
       ELSE /\ log' = IF ~disabledGrimWarning
                      THEN Append(log, "warning: grim is wlroots based")
                      ELSE log
            /\ grimCalls' = grimCalls + 1
            /\ pc' = "grim_entry"
            /\ UNCHANGED portalCalls
    /\ UNCHANGED <<envVars, geo, cfgVars, busVars, grimVars, ok, res, ops>>

\* switchDefault as it would be if the default label fell into the portal
\* branch instead of failing
switchDefault_fallsToPortal ==
    /\ pc = "switch"
    /\ wm \notin {"GNOME", "KDE", "COSMIC", "QTILE", "WLROOTS", "HYPRLAND",
                  "OTHER"}
    /\ portalCalls' = portalCalls + 1
    /\ pc' = "fdp_entry"
    /\ UNCHANGED <<envVars, geo, cfgVars, busVars, grimVars, grimFlagRead,
                   grimCalls, ok, res, log, ops>>

\* lines 185-193: default
switchDefault ==
    /\ pc = "switch"
    /\ wm \notin {"GNOME", "KDE", "COSMIC", "QTILE", "WLROOTS", "HYPRLAND",
                  "OTHER"}
    /\ ok' = FALSE
    /\ log' = log \o <<"error: unable to detect desktop environment",
                       "error: hint XDG_CURRENT_DESKTOP">>
    /\ pc' = "after_switch"
    /\ UNCHANGED <<envVars, geo, cfgVars, busVars, grimVars, callVars, res, ops>>

\* lines 195-198
grabReturn ==
    /\ pc = "after_switch"
    /\ log' = IF ~ok THEN Append(log, "error: unable to capture screen") ELSE log
    /\ pc' = "done"
    /\ UNCHANGED <<envVars, geo, cfgVars, busVars, grimVars, callVars, ok, res, ops>>

\* lines 202-218: no wayland, grab through the primary screen
directGrab ==
    /\ pc = "direct"
    /\ \E out \in HyprctlOutcomes :
          LET geometry == desktopGeometry(out)
          IN  res' = Pixmap(FALSE, geometry.w, geometry.h, <<screens[1].dpr, 4>>)
    /\ ops' = Append(ops, "grabWindow")
    /\ pc' = "done"
    /\ UNCHANGED <<envVars, geo, cfgVars, busVars, grimVars, callVars, ok, log>>

----------------------------------------------------------------------------
(* ScreenGrabber::freeDesktopPortal                                        *)

\* portalPreflight without the isServiceRegistered test
portalPreflight_noTest ==
    /\ pc = "fdp_entry"
    /\ \E uuid \in Uuids :
          /\ token' = makeToken(uuid)
          /\ request' = requestPath(baseService, makeToken(uuid))
    /\ ops' = Append(ops, "new request")
    /\ pc' = "fdp_connect"
    /\ UNCHANGED <<envVars, geo, cfgVars, grimVars, callVars, ok, res, log,
                   handleToken, conn, closed, released, portal, inflight,
                   handled, emitted, portalFile>>

\* lines 69-96: the isServiceRegistered test, then token and request object
portalPreflight ==
    /\ pc = "fdp_entry"
    /\ IF ~registered
       THEN /\ ok' = FALSE
            /\ log' = Append(log, "error: could not locate portal service")
            /\ pc' = "after_switch"
            /\ UNCHANGED <<token, request, ops>>
       ELSE /\ \E uuid \in Uuids :
                 /\ token' = makeToken(uuid)
                 /\ request' = requestPath(baseService, makeToken(uuid))
            /\ ops' = Append(ops, "new request")
            /\ pc' = "fdp_connect"
            /\ UNCHANGED <<ok, log>>
    /\ UNCHANGED <<envVars, geo, cfgVars, grimVars, callVars, res, handleToken,
                   conn, closed, released, portal, inflight, handled,
                   emitted, portalFile>>

\* connectResponse as it would be if the connect were not made before the
\* Screenshot call
connectResponse_notYet ==
    /\ pc = "fdp_connect"
    /\ pc' = "fdp_call"
    /\ UNCHANGED <<envVars, geo, cfgVars, busVars, grimVars, callVars, ok, res,
                   log, ops>>

\* lines 114-115: connect gotSignal to the Response signal of the request
connectResponse ==
    /\ pc = "fdp_connect"
    /\ conn' = request
    /\ ops' = Append(ops, "connect")
    /\ pc' = "fdp_call"
    /\ UNCHANGED <<envVars, geo, cfgVars, grimVars, callVars, ok, res, log, token,
                   handleToken, request, closed, released, portal, inflight,
                   handled, emitted, portalFile>>

\* lines 117-121: the Screenshot call; the portal takes it or answers with an
\* error, and the reply is not looked at
callScreenshot ==
    /\ pc = "fdp_call"
    /\ handleToken' = token
    /\ portal' \in {"accepted", "rejected"}
    /\ ops' = Append(ops, "Screenshot")
    /\ pc' = "fdp_exec"
    /\ UNCHANGED <<envVars, geo, cfgVars, grimVars, callVars, ok, res, log, token,
                   request, conn, closed, released, inflight, handled,
                   emitted, portalFile>>

\* line 123: loop.exec() is entered
loopExec ==
    /\ pc = "fdp_exec"
    /\ pc' = "fdp_loop"
    /\ UNCHANGED <<envVars, geo, cfgVars, busVars, grimVars, callVars, ok, res,
                   log, ops>>

\* the portal emits the one Response of an accepted request; with status 0
\* it has written the file its uri names
portalResponse ==
    /\ portal = "accepted"
    /\ \E status \in Statuses :
          /\ inflight' = inflight \cup
                {Response(portalRequestPath(baseService, handleToken), status)}
          /\ emitted' = Append(emitted,
                Response(portalRequestPath(baseService, handleToken), status))
          /\ IF status = 0
             THEN portalFile' \in ImageFiles \cup {CorruptFile, NoFile}
             ELSE UNCHANGED portalFile
    /\ portal' = "responded"
    /\ UNCHANGED <<envVars, geo, cfgVars, grimVars, callVars, pc, ok, res, log,
                   ops, token, handleToken, request, conn, closed, released,
                   handled>>

\* gotSignal removing the file before it is loaded
gotSignal_removesFirst ==
    /\ pc = "fdp_loop"
    /\ \E m \in inflight :
          /\ conn # NoPath
          /\ m.path = conn
          /\ inflight' = inflight \ {m}
          /\ IF m.status = 0
             THEN /\ \E out1, out2 \in HyprctlOutcomes :
                        /\ hyprctlStarted \/ (out1 = NotRun /\ out2 = NotRun)
                        /\ geo' = adjustRecord(loadPixmap(NoFile), out1, out2)
                        /\ res' = adjustDevicePixelRatio(
                                      loadPixmap(NoFile), out1, out2)
                  /\ portalFile' = NoFile
                  /\ ops' = ops \o <<"remove", "load">> \o adjustOps
             ELSE UNCHANGED <<res, portalFile, ops, geo>>
    /\ handled' = handled + 1
    /\ pc' = "fdp_quit"
    /\ UNCHANGED <<envVars, cfgVars, grimVars, callVars, ok, log, token,
                   handleToken, request, conn, closed, released, portal,
                   emitted>>

\* gotSignal calling loop.quit() in the status 0 branch only
gotSignal_quitOnSuccess ==
    /\ pc = "fdp_loop"
    /\ \E m \in inflight :
          /\ conn # NoPath
          /\ m.path = conn
          /\ inflight' = inflight \ {m}
          /\ IF m.status = 0
             THEN /\ \E out1, out2 \in HyprctlOutcomes :
                        /\ hyprctlStarted \/ (out1 = NotRun /\ out2 = NotRun)
                        /\ geo' = adjustRecord(loadPixmap(portalFile),
                                               out1, out2)
                        /\ res' = adjustDevicePixelRatio(
                                      loadPixmap(portalFile), out1, out2)
                  /\ portalFile' = NoFile
                  /\ ops' = ops \o <<"load">> \o adjustOps \o <<"remove">>
                  /\ pc' = "fdp_quit"
             ELSE UNCHANGED <<res, portalFile, ops, geo, pc>>
    /\ handled' = handled + 1
    /\ UNCHANGED <<envVars, cfgVars, grimVars, callVars, ok, log, token,
                   handleToken, request, conn, closed, released, portal,
                   emitted>>

\* lines 99-111: gotSignal, run by the event loop for a Response of the
\* connected object; loop.quit() ends loop.exec()
gotSignal ==
    /\ pc = "fdp_loop"
    /\ \E m \in inflight :
          /\ conn # NoPath
          /\ m.path = conn
          /\ inflight' = inflight \ {m}
          /\ IF m.status = 0
             THEN /\ \E out1, out2 \in HyprctlOutcomes :
                        /\ hyprctlStarted \/ (out1 = NotRun /\ out2 = NotRun)
                        /\ geo' = adjustRecord(loadPixmap(portalFile),
                                               out1, out2)
                        /\ res' = adjustDevicePixelRatio(
                                      loadPixmap(portalFile), out1, out2)
                  /\ portalFile' = NoFile
                  /\ ops' = ops \o <<"load">> \o adjustOps \o <<"remove">>
             ELSE UNCHANGED <<res, portalFile, ops, geo>>
    /\ handled' = handled + 1
    /\ pc' = "fdp_quit"
    /\ UNCHANGED <<envVars, cfgVars, grimVars, callVars, ok, log, token,
                   handleToken, request, conn, closed, released, portal,
                   emitted>>

\* portalCleanup without the final isNull test
portalCleanup_noNullTest ==
    /\ pc = "fdp_quit"
    /\ conn' = NoPath
    /\ closed' = TRUE
    /\ released' = TRUE
    /\ ops' = ops \o <<"disconnect", "Close", "deleteLater">>
    /\ pc' = "after_switch"
    /\ UNCHANGED <<envVars, geo, cfgVars, grimVars, callVars, ok, res, log, token,
                   handleToken, request, portal, inflight, handled, emitted,
                   portalFile>>

\* portalCleanup that closes the request only after a successful capture
portalCleanup_closeOnSuccess ==
    /\ pc = "fdp_quit"
    /\ conn' = NoPath
    /\ closed' = ~res.isNull
    /\ released' = TRUE
    /\ ops' = IF res.isNull THEN ops \o <<"disconnect", "deleteLater">>
              ELSE ops \o <<"disconnect", "Close", "deleteLater">>
    /\ ok' = IF res.isNull THEN FALSE ELSE ok
    /\ pc' = "after_switch"
    /\ UNCHANGED <<envVars, geo, cfgVars, grimVars, callVars, res, log, token,
                   handleToken, request, portal, inflight, handled, emitted,
                   portalFile>>

\* lines 124-130: disconnect, Close, deleteLater, and the isNull test
portalCleanup ==
    /\ pc = "fdp_quit"
    /\ conn' = NoPath
    /\ closed' = TRUE
    /\ released' = TRUE
    /\ ops' = ops \o <<"disconnect", "Close", "deleteLater">>
    /\ ok' = IF res.isNull THEN FALSE ELSE ok
    /\ pc' = "after_switch"
    /\ UNCHANGED <<envVars, geo, cfgVars, grimVars, callVars, res, log, token,
                   handleToken, request, portal, inflight, handled, emitted,
                   portalFile>>

----------------------------------------------------------------------------
(* ScreenGrabber::generalGrimScreenshot                                    *)

\* how a started grim process can end, as QProcess sees it
GrimOutcomes == {"exit 0", "exit 1", "crashed", "timed out", "failed to start"}

\* QProcess::waitForFinished: true once the process has finished, whatever
\* its exit code or exit status
waitForFinished(outcome) == outcome \in {"exit 0", "exit 1", "crashed"}

\* the files grim can leave at imgPath
grimWrites(outcome, before) ==
    IF outcome = "exit 0" THEN ImageFiles \cup {CorruptFile}
    ELSE IF outcome \in {"exit 1", "crashed"} THEN {before, CorruptFile}
    ELSE {before}

\* lines 36-48: the useGrimAdapter test, then Process.start
grimStart ==
    /\ pc = "grim_entry"
    /\ IF ~useGrimAdapter
       THEN /\ pc' = "after_switch"
            /\ UNCHANGED <<grimProc, ops>>
       ELSE /\ grimProc' = "started"
            /\ ops' = Append(ops, "grim")
            /\ pc' = "grim_wait"
    /\ UNCHANGED <<envVars, geo, cfgVars, busVars, callVars, grimFile, ok, res, log>>

\* grimWait as it would be if the file were loaded before the result of
\* waitForFinished is looked at
grimWait_loadsFirst ==
    /\ pc = "grim_wait"
    /\ \E outcome \in GrimOutcomes :
          /\ grimProc' = outcome
          /\ \E written \in grimWrites(outcome, grimFile) :
                /\ \E out1, out2 \in HyprctlOutcomes :
                      /\ hyprctlStarted \/ (out1 = NotRun /\ out2 = NotRun)
                      /\ geo' = adjustRecord(loadPixmap(written), out1, out2)
                      /\ res' = adjustDevicePixelRatio(loadPixmap(written),
                                                       out1, out2)
                /\ grimFile' = NoFile
                /\ ops' = ops \o <<"load", "remove">> \o adjustOps
                /\ IF waitForFinished(outcome)
                   THEN /\ ok' = TRUE
                        /\ UNCHANGED log
                   ELSE /\ ok' = FALSE
                        /\ log' = Append(log, "error: grim is required")
    /\ pc' = "after_switch"
    /\ UNCHANGED <<envVars, cfgVars, busVars, callVars>>

\* lines 49-61: waitForFinished and its two branches
grimWait ==
    /\ pc = "grim_wait"
    /\ \E outcome \in GrimOutcomes :
          /\ grimProc' = outcome
          /\ \E written \in grimWrites(outcome, grimFile) :
                IF waitForFinished(outcome)
                THEN /\ \E out1, out2 \in HyprctlOutcomes :
                           /\ hyprctlStarted
                                \/ (out1 = NotRun /\ out2 = NotRun)
                           /\ geo' = adjustRecord(loadPixmap(written),
                                                  out1, out2)
                           /\ res' = adjustDevicePixelRatio(
                                         loadPixmap(written), out1, out2)
                     /\ grimFile' = NoFile
                     /\ ops' = ops \o <<"load", "remove">> \o adjustOps
                     /\ ok' = TRUE
                     /\ UNCHANGED log
                ELSE /\ ok' = FALSE
                     /\ log' = Append(log, "error: grim is required")
                     /\ grimFile' = written
                     /\ UNCHANGED <<res, ops, geo>>
    /\ pc' = "after_switch"
    /\ UNCHANGED <<envVars, cfgVars, busVars, callVars>>

----------------------------------------------------------------------------
\* the stored configuration changes.  Every ConfigHandler() is a fresh read
\* of the settings store, which the event loop run by loop.exec() and other
\* processes can write.  A change is taken where a later step of the call can
\* still be reached by it: between capture calls, between the read of the
\* dispatcher (line 163) and the read of generalGrimScreenshot (line 36),
\* and during loop.exec().
configChange ==
    /\ pc \in {"idle", "grim_entry", "fdp_loop"}
    /\ \E grim, warn \in BOOLEAN :
          /\ <<grim, warn>> # <<useGrimAdapter, disabledGrimWarning>>
          /\ useGrimAdapter' = grim
          /\ disabledGrimWarning' = warn
    /\ UNCHANGED <<envVars, geo, busVars, grimVars, callVars, pc, ok, res, log, ops>>

Next ==
    \/ grabEntireDesktop
    \/ switchPortal
    \/ switchConfigured
    \/ switchDefault
    \/ grabReturn
    \/ directGrab
    \/ portalPreflight
    \/ connectResponse
    \/ callScreenshot
    \/ loopExec
    \/ portalResponse
    \/ gotSignal
    \/ portalCleanup
    \/ grimStart
    \/ grimWait
    \/ configChange

Spec == Init /\ [][Next]_vars

\* the steps of the capture call itself
Program ==
    \/ grabEntireDesktop
    \/ switchPortal
    \/ switchConfigured
    \/ switchDefault
    \/ grabReturn
    \/ directGrab
    \/ portalPreflight
    \/ connectResponse
    \/ callScreenshot
    \/ loopExec
    \/ gotSignal
    \/ portalCleanup
    \/ grimStart
    \/ grimWait

\* the capture call keeps running and the event loop delivers a queued
\* Response; nothing makes the portal emit one
FairSpec == Spec /\ WF_vars(Program)

----------------------------------------------------------------------------
(* The geometry functions on their own: desktopGeometry(),                 *)
(* logicalDesktopGeometry() and adjustDevicePixelRatio() applied to        *)
(* outputs, hyprctl answers and images drawn from wider sets.              *)

MaxScreens == 2
MaxMonitors == 2

SeqsUpTo(S, n) == UNION { [1..k -> S] : k \in 1..n }

\* outputs a layout is made of
GeoScreens ==
    { Screen(0, 0, 1920, 1080, 4),
      Screen(1920, 0, 2560, 1440, 5),
      Screen(1920, 0, 1920, 1080, 8),
      Screen(3840, 0, 1920, 1080, 4),
      Screen(0, 0, 3840, 2160, 8),
      Screen(0, 0, 1000, 1000, 4) }

GeoLayouts == SeqsUpTo(GeoScreens, MaxScreens)

\* values of the array hyprctl prints: monitors, monitors with a zero scale,
\* width or height, and a value that is not an object
GeoMonitors ==
    { Monitor(0, 0, 1920, 1080, 4),
      Monitor(1920, 0, 2560, 1440, 5),
      Monitor(1920, 0, 1920, 1080, 8),
      Monitor(3840, 0, 1920, 1080, 4),
      Monitor(0, 0, 1920, 1080, 0),
      Monitor(5000, 0, 0, 1080, 4),
      Monitor(0, 3000, 1920, 0, 4),
      NotAnObject }

GeoOutcomes ==
    { Hyprctl(FALSE, FALSE, <<>>), Hyprctl(TRUE, FALSE, <<>>),
      Hyprctl(TRUE, TRUE, <<>>) }
      \cup { Hyprctl(TRUE, TRUE, a) : a \in SeqsUpTo(GeoMonitors, MaxMonitors) }

\* pixmaps handed to adjustDevicePixelRatio: freshly loaded images and the
\* null pixmap of a failed load
GeoPixmaps ==
    { loadPixmap(f) : f \in ImageFiles \cup {File("image", 2000, 2000), NoFile} }

GeoInit ==
    /\ pc = "geometry"
    /\ wayland \in BOOLEAN
    /\ wm \in WindowManagers
    /\ useGrimAdapter = FALSE
    /\ disabledGrimWarning = FALSE
    /\ grimFlagRead = "unread"
    /\ ok = FALSE
    /\ res = NullPixmap
    /\ log = <<>>
    /\ ops = <<>>
    /\ screens \in GeoLayouts
    /\ appDpr = highestDpr(screens)
    /\ registered = TRUE
    /\ baseService = <<":", "1", ".", "7">>
    /\ token = <<>>
    /\ handleToken = <<>>
    /\ request = NoPath
    /\ conn = NoPath
    /\ closed = FALSE
    /\ released = FALSE
    /\ portal = "none"
    /\ inflight = {}
    /\ handled = 0
    /\ emitted = <<>>
    /\ portalFile = NoFile
    /\ grimFile = NoFile
    /\ grimProc = "none"
    /\ portalCalls = 0
    /\ grimCalls = 0
    /\ geo = NoGeo

\* desktopGeometry() and logicalDesktopGeometry() called one after the
\* other, hyprctl giving both calls the same output
geometryQuery ==
    /\ pc = "geometry"
    /\ \E out \in GeoOutcomes :
          /\ hyprctlStarted \/ out = NotRun
          /\ geo' = [op |-> "query", out1 |-> out, out2 |-> out,
                     physical |-> desktopGeometry(out),
                     logical |-> logicalDesktopGeometry(out),
                     before |-> NullPixmap, after |-> NullPixmap]
    /\ ops' = adjustOps
    /\ pc' = "geometry_done"
    /\ UNCHANGED <<envVars, cfgVars, busVars, grimVars, callVars, ok, res, log>>

\* adjustDevicePixelRatio() called on a pixmap
reconcile ==
    /\ pc = "geometry"
    /\ \E pixmap \in GeoPixmaps, out1, out2 \in HyprctlOutcomes :
          /\ hyprctlStarted \/ (out1 = NotRun /\ out2 = NotRun)
          /\ geo' = adjustRecord(pixmap, out1, out2)
    /\ ops' = adjustOps
    /\ pc' = "geometry_done"
    /\ UNCHANGED <<envVars, cfgVars, busVars, grimVars, callVars, ok, res, log>>

GeoNext ==
    \/ geometryQuery
    \/ reconcile

GeoSpec == GeoInit /\ [][GeoNext]_vars

----------------------------------------------------------------------------
(* Properties.                                                             *)

Has(seq, e) == \E i \in DOMAIN seq : seq[i] = e

\* the step appends op to ops
Performs(op) == Len(ops') > Len(ops) /\ ops'[Len(ops) + 1] = op

\* freeDesktopPortal has returned to grabEntireDesktop
portalReturned == portalCalls > 0 /\ pc \in {"after_switch", "done"}

\* generalGrimScreenshot has returned to grabEntireDesktop
grimReturned == grimCalls > 0 /\ pc \in {"after_switch", "done"}

\* C1: whenever freeDesktopPortal issues the Screenshot call, gotSignal is
\* already connected to the Response signal of the request object whose path
\* is built from the bus name of the caller and the token.
C1_SubscribedBeforeScreenshot ==
    [][Performs("Screenshot") =>
         /\ conn # NoPath
         /\ conn = requestPath(baseService, token)]_vars

C1_Witness ==
    /\ pc = "fdp_exec"
    /\ Has(ops, "Screenshot")
    /\ conn = requestPath(baseService, token)

\* C2: when org.freedesktop.portal.Desktop is not registered, freeDesktopPortal
\* returns ok = false and the execution never makes a request object, never
\* connects to Response, and never sends Screenshot or Close.
C2_NoServiceNoRequest ==
    (wayland /\ ~registered) =>
        /\ request = NoPath
        /\ conn = NoPath
        /\ portal = "none"
        /\ ~closed
        /\ ~Has(ops, "new request")
        /\ ~Has(ops, "connect")
        /\ ~Has(ops, "Screenshot")
        /\ ~Has(ops, "Close")
        /\ (portalReturned => ~ok)

C2_Witness ==
    /\ ~registered
    /\ portalReturned
    /\ pc = "done"
    /\ ~ok

\* C3: after a Response whose status is not 0 has been handled, the image is
\* null, no file has been loaded or removed, and when freeDesktopPortal has
\* returned ok is false and Close has been called on the request.
C3_DeclinedResponse ==
    (handled > 0 /\ emitted[1].status # 0) =>
        /\ res.isNull
        /\ ~Has(ops, "load")
        /\ ~Has(ops, "remove")
        /\ (portalReturned => (~ok /\ closed /\ Has(ops, "Close")))

C3_Witness ==
    /\ handled > 0
    /\ emitted[1].status # 0
    /\ portalReturned
    /\ closed

\* C4: once the request object exists, freeDesktopPortal has not returned
\* unless gotSignal is disconnected, Close has been called and the object has
\* been handed to deleteLater.
C4_CleanupOnReturn ==
    (request # NoPath /\ portalReturned) =>
        /\ conn = NoPath
        /\ closed
        /\ released
        /\ Has(ops, "disconnect")
        /\ Has(ops, "Close")

C4_Witness ==
    /\ request # NoPath
    /\ portalReturned
    /\ handled > 0
    /\ emitted[1].status = 0
    /\ ~res.isNull
    /\ conn = NoPath
    /\ closed

\* C5: once the Screenshot call has been issued, freeDesktopPortal eventually
\* returns, whether or not the portal ever emits a Response.
C5_WaitEnds == (pc = "fdp_exec") ~> portalReturned

\* C6: generalGrimScreenshot reports ok = true exactly when the grim process
\* exited with code 0; a timeout, a non-zero exit code and a process that
\* could not be started all give ok = false.
C6_GrimOkIffExitZero ==
    (grimReturned /\ grimProc \notin {"none", "started"}) =>
        (ok <=> grimProc = "exit 0")

\* C7: whenever a capture on wayland ends with ok = false the image is null,
\* and grabEntireDesktop has logged "unable to capture screen" as its last
\* message before returning.
C7_FailureHasNoImage ==
    (wayland /\ pc \in {"after_switch", "done"} /\ ~ok) =>
        /\ res.isNull
        /\ (pc = "done" =>
              /\ Len(log) > 0
              /\ log[Len(log)] = "error: unable to capture screen")

C7_Witness ==
    /\ wayland
    /\ pc = "done"
    /\ ~ok
    /\ grimProc = "timed out"
    /\ grimFile.kind = "image"

\* C8: on wayland with GNOME, KDE or COSMIC a capture calls freeDesktopPortal
\* and never generalGrimScreenshot, and grim is never started, whatever the
\* useGrimAdapter and disabledGrimWarning settings are.
C8_PortalOnlyDesktops ==
    (wayland /\ wm \in {"GNOME", "KDE", "COSMIC"}) =>
        /\ grimCalls = 0
        /\ grimProc = "none"
        /\ ~Has(ops, "grim")
        /\ (pc \notin {"idle", "switch"} => portalCalls = 1)

C8_Witness ==
    /\ wayland
    /\ wm = "KDE"
    /\ useGrimAdapter
    /\ pc = "done"
    /\ portalCalls = 1

\* C9: on wayland with QTILE, WLROOTS, HYPRLAND or OTHER a capture calls
\* exactly one backend: generalGrimScreenshot if useGrimAdapter was set when
\* the dispatcher read it, freeDesktopPortal otherwise; grim is started only
\* when the setting was read as set.
C9_OneBackendByFlag ==
    (wayland /\ wm \in {"QTILE", "WLROOTS", "HYPRLAND", "OTHER"}) =>
        /\ (pc \notin {"idle", "switch"} =>
              /\ portalCalls + grimCalls = 1
              /\ (grimFlagRead = "set" => grimCalls = 1)
              /\ (grimFlagRead = "unset" => portalCalls = 1))
        /\ (grimProc # "none" => grimFlagRead = "set")
        /\ (Has(ops, "grim") => grimFlagRead = "set")

C9_Witness ==
    /\ wayland
    /\ wm = "WLROOTS"
    /\ grimFlagRead = "set"
    /\ grimCalls = 1
    /\ grimProc = "exit 0"
    /\ pc = "done"

\* C10: on wayland with a window manager that is none of GNOME, KDE, COSMIC,
\* QTILE, WLROOTS, HYPRLAND, OTHER a capture calls no backend and returns
\* ok = false with a null image, after logging the XDG_CURRENT_DESKTOP hint.
C10_UnclassifiedFails ==
    (wayland /\ wm \notin {"GNOME", "KDE", "COSMIC", "QTILE", "WLROOTS",
                           "HYPRLAND", "OTHER"}) =>
        /\ portalCalls = 0
        /\ grimCalls = 0
        /\ ops = <<>>
        /\ res.isNull
        /\ (pc \in {"after_switch", "done"} =>
              /\ ~ok
              /\ Has(log, "error: hint XDG_CURRENT_DESKTOP"))

C10_Witness ==
    /\ wayland
    /\ wm = "NONE"
    /\ pc = "done"
    /\ ~ok
    /\ Has(log, "error: hint XDG_CURRENT_DESKTOP")

----------------------------------------------------------------------------
(* Properties of the geometries.                                           *)

\* a value of the hyprctl array that line 348 lets through
validMonitor(m) == m.isObject /\ m.width > 0 /\ m.height > 0 /\ m.scale > 0

\* the hyprctl run gave no geometry: no exit in time, no JSON array, or an
\* array without a valid monitor
hyprctlFailed(out) ==
    \/ ~out.finished
    \/ ~out.isArray
    \/ \A i \in DOMAIN out.array : ~validMonitor(out.array[i])

\* the outputs a geometry query was about: the valid monitors hyprctl listed
\* on the Hyprland path, the screens otherwise
scalesAtLeastOne ==
    IF hyprctlStarted /\ ~hyprctlFailed(geo.out1)
    THEN \A i \in DOMAIN geo.out1.array :
            validMonitor(geo.out1.array[i]) => geo.out1.array[i].scale >= 4
    ELSE \A i \in DOMAIN screens : screens[i].dpr >= 4

\* C11: with every scale at least 1 the logical desktop geometry is no wider
\* and no higher than the physical one, wherever the outputs are placed.
C11_LogicalWithinPhysical ==
    (geo.op = "query" /\ scalesAtLeastOne) =>
        /\ geo.logical.w <= geo.physical.w
        /\ geo.logical.h <= geo.physical.h

\* C12: outputs (0,0) 1920x1080 at scale 1 and (1920,0) 2560x1440 at scale
\* 1.25 give the physical geometry (0,0,4480,1440) and the logical geometry
\* (0,0,3968,1152); the single output (0,0) 1920x1080 at scale 1 gives
\* (0,0,1920,1080) for both.
C12_ExampleGeometries ==
    (geo.op = "query" /\ ~hyprctlStarted) =>
        /\ (screens = <<Screen(0, 0, 1920, 1080, 4),
                        Screen(1920, 0, 2560, 1440, 5)>> =>
              /\ geo.physical = Rect(0, 0, 4480, 1440)
              /\ geo.logical = Rect(0, 0, 3968, 1152))
        /\ (screens = <<Screen(0, 0, 1920, 1080, 4)>> =>
              /\ geo.physical = Rect(0, 0, 1920, 1080)
              /\ geo.logical = Rect(0, 0, 1920, 1080))

\* the rectangles of one valid monitor, lines 352-359
monitorPhysical(m) == Rect(m.x, m.y, m.width, m.height)
monitorLogical(m) ==
    Rect(llround(4 * m.x, m.scale), llround(4 * m.y, m.scale),
         llround(4 * m.width, m.scale), llround(4 * m.height, m.scale))

RECURSIVE unionOfRects(_)
unionOfRects(rects) ==
    IF rects = <<>> THEN NullRect
    ELSE united(unionOfRects(SubSeq(rects, 1, Len(rects) - 1)),
                rects[Len(rects)])

validMonitors(array) == SelectSeq(array, validMonitor)

\* C13: on the Hyprland path the two unions are the unions of the rectangles
\* of the valid entries alone, wherever the invalid entries stand in the
\* array; one valid entry next to a zero-scale entry gives the rectangles of
\* the valid entry.
C13_InvalidEntriesExcluded ==
    (geo.op = "query" /\ hyprctlStarted /\ ~hyprctlFailed(geo.out1)) =>
        LET valid == validMonitors(geo.out1.array)
        IN  /\ geo.physical =
                  unionOfRects([i \in DOMAIN valid |-> monitorPhysical(valid[i])])
            /\ geo.logical =
                  unionOfRects([i \in DOMAIN valid |-> monitorLogical(valid[i])])
            /\ (Len(valid) = 1 =>
                  /\ geo.physical = monitorPhysical(valid[1])
                  /\ geo.logical = monitorLogical(valid[1]))

C13_Witness ==
    /\ geo.op = "query"
    /\ hyprctlStarted
    /\ geo.out1.array = <<Monitor(0, 0, 1920, 1080, 0),
                          Monitor(1920, 0, 2560, 1440, 5)>>
    /\ geo.physical = Rect(1920, 0, 2560, 1440)
    /\ geo.logical = Rect(1536, 0, 2048, 1152)

\* equality of two rationals
RatEq(a, b) == a[1] * b[2] = b[1] * a[2]

sameSize(pixmap, rect) == pixmap.w = rect.w /\ pixmap.h = rect.h

\* C14: adjustDevicePixelRatio gives an image of the physical size the scale
\* of the application, leaves the scale of an image of the logical size as it
\* was, and gives any other image the scale height / logical height; height
\* 2000 against logical height 1000 gives 2.
C14_ThreeWayPolicy ==
    (geo.op = "adjust" /\ ~geo.before.isNull) =>
        /\ geo.after.w = geo.before.w
        /\ geo.after.h = geo.before.h
        /\ ~geo.after.isNull
        /\ IF sameSize(geo.before, geo.physical)
           THEN geo.after.dpr = <<appDpr, 4>>
           ELSE IF sameSize(geo.before, geo.logical)
           THEN geo.after.dpr = geo.before.dpr /\ geo.after.dpr = <<1, 1>>
           ELSE /\ geo.logical.h > 0
                /\ RatEq(geo.after.dpr, <<geo.before.h, geo.logical.h>>)
                /\ (geo.before.h = 2000 /\ geo.logical.h = 1000 =>
                      RatEq(geo.after.dpr, <<2, 1>>))

C14_Witness ==
    /\ geo.op = "adjust"
    /\ geo.before.h = 2000
    /\ geo.logical.h = 1000
    /\ ~sameSize(geo.before, geo.physical)
    /\ RatEq(geo.after.dpr, <<2, 1>>)

\* |size / scale - extent| <= 1 for a scale n/d with n, d > 0
withinOnePixel(size, scale, extent) ==
    /\ size * scale[2] - extent * scale[1] <= scale[1]
    /\ extent * scale[1] - size * scale[2] <= scale[1]

\* C15: after adjustDevicePixelRatio the size of the image divided by its
\* scale is the size of the logical desktop geometry, in width and in height,
\* to within one pixel.
C15_SizeOverScaleIsLogical ==
    (geo.op = "adjust" /\ ~geo.before.isNull) =>
        /\ withinOnePixel(geo.after.w, geo.after.dpr, geo.logical.w)
        /\ withinOnePixel(geo.after.h, geo.after.dpr, geo.logical.h)

\* C15 as amended: for a freshly loaded image whose size is not that of the
\* physical desktop geometry, the height of the image divided by its scale is
\* the height of the logical desktop geometry, to within one pixel.
C15_HeightOverScaleIsLogical ==
    (geo.op = "adjust" /\ ~geo.before.isNull
       /\ ~sameSize(geo.before, geo.physical)) =>
        withinOnePixel(geo.after.h, geo.after.dpr, geo.logical.h)

C15_Witness ==
    /\ geo.op = "adjust"
    /\ ~geo.before.isNull
    /\ ~sameSize(geo.before, geo.physical)
    /\ ~sameSize(geo.before, geo.logical)
    /\ withinOnePixel(geo.after.h, geo.after.dpr, geo.logical.h)
    /\ ~withinOnePixel(geo.after.w, geo.after.dpr, geo.logical.w)

----------------------------------------------------------------------------
(* Properties of the capture call that rest on the geometries, the         *)
(* configuration reads and the order of the steps.                         *)

\* C16: with HYPRLAND on wayland, a hyprctl run that does not finish in the
\* second, prints no JSON array or lists no valid monitor leaves both
\* geometries what the loops over the screens give, and ok is what the
\* backend alone made it; with another window manager or without wayland
\* hyprctl is never run.
C16_HyprctlFallback ==
    /\ Has(ops, "hyprctl") => (wayland /\ wm = "HYPRLAND")
    /\ geo.op = "adjust" =>
          /\ (~hyprctlStarted \/ hyprctlFailed(geo.out1)) =>
                geo.physical = screensPhysical(screens)
          /\ (~hyprctlStarted \/ hyprctlFailed(geo.out2)) =>
                geo.logical = screensLogical(screens)
    /\ (grimReturned /\ grimProc # "none") => (ok <=> waitForFinished(grimProc))
    /\ (portalReturned /\ handled > 0) => (ok <=> ~res.isNull)

C16_Witness ==
    /\ wayland
    /\ wm = "HYPRLAND"
    /\ pc = "done"
    /\ ok
    /\ geo.op = "adjust"
    /\ geo.out1 = Hyprctl(FALSE, FALSE, <<>>)
    /\ geo.out2 = Hyprctl(TRUE, TRUE, <<NotAnObject, Monitor(0, 0, 1920, 1080, 0)>>)
    /\ geo.physical = screensPhysical(screens)
    /\ geo.logical = screensLogical(screens)
    /\ Has(ops, "hyprctl")

\* C17: a change of useGrimAdapter while a capture call runs does not change
\* the call: once the dispatcher has read the flag as set, the call that
\* returns has run grim.
C17_ConfigSnapshot ==
    (grimReturned /\ grimFlagRead = "set") => grimProc # "none"

\* the operations of a set, in the order they were performed
opsAmong(S) == SelectSeq(ops, LAMBDA op : op \in S)

\* C18: on a Response with status 0 the portal backend loads the file, then
\* removes it, then disconnects, then calls Close, and the file is gone when
\* the backend returns; the grim backend removes its file after loading it;
\* no file is removed before it was loaded.
C18_LoadRemoveDisconnectClose ==
    /\ (portalReturned /\ handled > 0 /\ emitted[1].status = 0) =>
          /\ opsAmong({"load", "remove", "disconnect", "Close"}) =
                <<"load", "remove", "disconnect", "Close">>
          /\ portalFile = NoFile
    /\ (grimReturned /\ grimProc # "none" /\ waitForFinished(grimProc)) =>
          /\ opsAmong({"load", "remove"}) = <<"load", "remove">>
          /\ grimFile = NoFile
    /\ \A i \in DOMAIN ops :
          ops[i] = "remove" => \E j \in 1..(i - 1) : ops[j] = "load"

C18_Witness ==
    /\ portalReturned
    /\ pc = "done"
    /\ handled = 1
    /\ emitted[1].status = 0
    /\ ok
    /\ ~res.isNull
    /\ portalFile = NoFile
    /\ opsAmong({"load", "remove", "disconnect", "Close"}) =
          <<"load", "remove", "disconnect", "Close">>

\* C19: a capture call on wayland whose backend ran to its end (the portal
\* backend returned, or grim finished) and that returns ok = true returns an
\* image, whatever the backend left behind.
C19_OkHasImage ==
    (/\ wayland
     /\ pc = "done"
     /\ ok
     /\ portalReturned \/ (grimReturned /\ waitForFinished(grimProc))) =>
        ~res.isNull

\* C20: a Response emitted at any moment after the subscription is handled
\* exactly once and ends the wait: the handler never runs more often than
\* Responses were emitted, a backend that returned after a Response ran it
\* once, and once a Response is emitted the backend returns.
C20_ResponseNotLost ==
    /\ [](handled <= Len(emitted))
    /\ []((portalReturned /\ Len(emitted) > 0) => handled = 1)
    /\ ((Len(emitted) > 0) ~> (portalReturned /\ handled = 1))

C20_Witness ==
    /\ pc = "fdp_exec"
    /\ Len(emitted) = 1
    /\ inflight # {}
    /\ handled = 0

====
